---- MODULE Spec2Model ----
(***************************************************************************)
(* The git-meta Python binding (python/gitmeta/repo.py, exceptions.py):    *)
(* class Repo, its process-invocation layer and its error mapping.         *)
(*                                                                         *)
(* Text (a Python str) is a sequence of characters; ".git" and "git-meta"  *)
(* are single characters of the alphabet.  A state holds the filesystem,   *)
(* the one Repo object under observation and a record of the last call     *)
(* made on the binding: its arguments, what subprocess.Popen was handed,    *)
(* and what the call returned or raised.                                   *)
(***************************************************************************)
EXTENDS Integers, Sequences, FiniteSets, TLC

\* ------------------------------------------------------------------ bounds
\* Longest text the external tool writes to its stdout.
MaxOut == 2
\* Longest list handed to open(), checkout() and _execute_git_meta_cmd().
MaxArgs == 1

\* ---------------------------------------------------------- input domains
OutChars == {" ", "/", "a"}
Whitespace == {" "}
TextsUpTo(n) == UNION {[1..k -> OutChars] : k \in 0..n}
Stdouts == TextsUpTo(MaxOut)
Stderrs == {<<>>, <<" ", "a", " ">>}
ExitCodes == {0, 1, 2}
CloneDirs == {<<"/", "a">>, <<"a">>}
Submodules == {<<"a">>, <<"/", "a">>, <<>>}
SubNames == {<<"a">>, <<"b">>}
ArgLists == UNION {[1..k -> SubNames] : k \in 0..MaxArgs}

\* ---------------------------------------------------------- Python values
NoneVal == [type |-> "None", items |-> <<>>]
StrVal(s) == [type |-> "str", items |-> <<s>>]
BoolVal(b) == [type |-> "bool", items |-> <<b>>]
ListVal(xs) == [type |-> "list", items |-> xs]
FunctionVal(name) == [type |-> "function", items |-> <<name>>]
TextOf(v) == v.items[1]
NonLists == {StrVal(<<"a">>), NoneVal}

\* A call's outcome: a returned value or a raised exception.  The four
\* GitMetaCommandException attributes are blank for everything else.
Return(v) ==
    [kind |-> "return", exc |-> "", value |-> v, returncode |-> 0,
     args |-> <<>>, stdout |-> <<>>, stderr |-> <<>>]
Raise(e) ==
    [kind |-> "raise", exc |-> e, value |-> NoneVal, returncode |-> 0,
     args |-> <<>>, stdout |-> <<>>, stderr |-> <<>>]

\* exceptions.GitMetaCommandException(returncode, args, stdout, stderr).
\* BaseException stores args as a tuple of the same elements.
GitMetaCommandException(returncode, args, stdout, stderr) ==
    [kind |-> "raise", exc |-> "GitMetaCommandException", value |-> NoneVal,
     returncode |-> returncode, args |-> args, stdout |-> stdout,
     stderr |-> stderr]

\* ---------------------------------------------------------------- strings
RECURSIVE lstrip(_)
lstrip(s) ==
    IF s # <<>> /\ Head(s) \in Whitespace THEN lstrip(Tail(s)) ELSE s

RECURSIVE rstrip(_)
rstrip(s) ==
    IF s # <<>> /\ s[Len(s)] \in Whitespace
    THEN rstrip(SubSeq(s, 1, Len(s) - 1))
    ELSE s

\* str.strip(): leading and trailing whitespace removed.
strip(s) == rstrip(lstrip(s))

\* os.path.join(a, b) on POSIX.
join(a, b) ==
    IF b # <<>> /\ Head(b) = "/" THEN b
    ELSE IF a = <<>> \/ a[Len(a)] = "/" THEN a \o b
    ELSE a \o <<"/">> \o b

\* ------------------------------------------------------------- filesystem
\* The kernel's reading of a path: repeated separators count once and a
\* trailing separator is dropped.
RECURSIVE resolve(_)
resolve(p) ==
    IF Len(p) <= 1 THEN p
    ELSE IF p[1] = "/" /\ p[2] = "/" THEN resolve(Tail(p))
    ELSE IF Len(p) = 2 /\ p[2] = "/" THEN <<p[1]>>
    ELSE <<p[1]>> \o resolve(Tail(p))

\* os.path.exists(p): the root always exists, the empty path never does.
exists(files, p) ==
    /\ p # <<>>
    /\ resolve(p) \in files \cup {<<"/">>}

\* The directories above p.
Parents(p) ==
    {SubSeq(p, 1, i - 1) : i \in {j \in 2..Len(p) : p[j] = "/"}}
FsMarkers == {<<"/", "a", "/", ".git">>, <<"/", "a">>,
              <<"a", "/", "a", "/", ".git">>}
Filesystems ==
    {S \cup UNION {Parents(p) : p \in S} : S \in SUBSET FsMarkers}

\* ------------------------------------------------------- process spawning
\* What stands behind subprocess.Popen when a call is made: the library's
\* own Popen, or a stub that records the call and plays a scripted child.
Runners == {"subprocess", "stub"}
\* What the git-meta binary does for this call once it is started
\* ("exit"), or that it cannot be found or started ("oserror").
Children ==
    [kind : {"exit"}, returncode : ExitCodes, stdout : Stdouts,
     stderr : Stderrs]
    \cup {[kind |-> "oserror", returncode |-> 0, stdout |-> <<>>,
           stderr |-> <<>>]}
Envs == [runner : Runners, child : Children]

NoCwd == <<>>
Cwd(d) == <<d>>

\* Repo._get_git_meta_bin(): the executable's name.
_get_git_meta_bin == StrVal(<<"git-meta">>)

\* subprocess.Popen(cmd, cwd=cwd, ...) followed by communicate().  The
\* library's Popen converts every element of cmd to a file-system string
\* before it starts anything and raises TypeError for one that is not
\* (Python 2 raises the same TypeError from the forked child, before any
\* exec); a binary that cannot be started raises OSError.
Popen(cmd, cwd, env) ==
    LET call == [argv |-> cmd, cwd |-> cwd] IN
    IF env.runner = "subprocess" /\ \E i \in 1..Len(cmd) : cmd[i].type # "str"
    THEN [call |-> call, launched |-> FALSE, error |-> "TypeError",
          returncode |-> 0, stdout |-> <<>>, stderr |-> <<>>]
    ELSE IF env.child.kind = "oserror"
    THEN [call |-> call, launched |-> FALSE, error |-> "OSError",
          returncode |-> 0, stdout |-> <<>>, stderr |-> <<>>]
    ELSE [call |-> call, launched |-> TRUE, error |-> "",
          returncode |-> env.child.returncode, stdout |-> env.child.stdout,
          stderr |-> env.child.stderr]

\* What a call on the binding yields: its outcome and the Popen calls made.
Done(result, procs) == [result |-> result, procs |-> procs]

\* Repo._execute_git_meta_cmd(args, cwd): cmd starts with the function
\* object Repo._get_git_meta_bin (it is not called), then the args.
_execute_git_meta_cmd(args, cwd, env) ==
    LET cmd == <<FunctionVal("_get_git_meta_bin")>>
               \o [i \in 1..Len(args) |-> StrVal(args[i])]
        pipes == Popen(cmd, cwd, env)
    IN  IF pipes.error # "" THEN Done(Raise(pipes.error), <<pipes>>)
        ELSE IF 0 = pipes.returncode
        THEN Done(Return(StrVal(strip(pipes.stdout))), <<pipes>>)
        ELSE Done(GitMetaCommandException(pipes.returncode, args,
                                          pipes.stdout, pipes.stderr),
                  <<pipes>>)

\* Repo._root(cwd)
_root(cwd, env) == _execute_git_meta_cmd(<<<<"root">>>>, cwd, env)

\* Repo.help(cwd)
help(cwd, env) == _execute_git_meta_cmd(<<<<"help">>>>, cwd, env)

\* Repo.version(cwd)
version(cwd, env) == _execute_git_meta_cmd(<<<<"version">>>>, cwd, env)

\* get_working_dir with the existence check left out.
get_working_dir_unchecked(clone_dir, files, env) ==
    LET r == _root(Cwd(clone_dir), env) IN
    IF r.result.exc = "GitMetaCommandException"
    THEN Done(Return(NoneVal), r.procs)
    ELSE r

\* Repo.get_working_dir(clone_dir)
get_working_dir(clone_dir, files, env) ==
    IF ~exists(files, clone_dir)
    THEN Done(Raise("NoSuchPathException"), <<>>)
    ELSE LET r == _root(Cwd(clone_dir), env) IN
         IF r.result.exc = "GitMetaCommandException"
         THEN Done(Return(NoneVal), r.procs)
         ELSE r

\* ------------------------------------------------------------ Repo object
Unresolved == [state |-> "unresolved", working_dir |-> <<>>, git_dir |-> <<>>]
Bound(wd, gd) == [state |-> "bound", working_dir |-> wd, git_dir |-> gd]

\* Python truth value of get_working_dir's result.
Falsy(v) == v.type = "None" \/ (v.type = "str" /\ TextOf(v) = <<>>)

\* __init__ testing "working_dir is None" in place of "not working_dir".
init_none_only(clone_dir, files, env) ==
    LET r == get_working_dir(clone_dir, files, env) IN
    IF r.result.kind = "raise"
    THEN [result |-> r.result, procs |-> r.procs, self |-> Unresolved]
    ELSE IF r.result.value.type = "None"
    THEN [result |-> Raise("MissingGitMetaCloneException"),
          procs |-> r.procs, self |-> Unresolved]
    ELSE [result |-> Return(NoneVal), procs |-> r.procs,
          self |-> Bound(TextOf(r.result.value),
                         join(TextOf(r.result.value), <<".git">>))]

\* Repo.__init__(clone_dir): the outcome and the object it leaves.
__init__(clone_dir, files, env) ==
    LET r == get_working_dir(clone_dir, files, env) IN
    IF r.result.kind = "raise"
    THEN [result |-> r.result, procs |-> r.procs, self |-> Unresolved]
    ELSE IF Falsy(r.result.value)
    THEN [result |-> Raise("MissingGitMetaCloneException"),
          procs |-> r.procs, self |-> Unresolved]
    ELSE [result |-> Return(NoneVal), procs |-> r.procs,
          self |-> Bound(TextOf(r.result.value),
                         join(TextOf(r.result.value), <<".git">>))]

\* The value a method that ends without a return statement yields.
Discard(r) ==
    IF r.result.kind = "return" THEN Done(Return(NoneVal), r.procs) ELSE r

\* open with the isinstance assertion left out.
open_unchecked(self, submodules, env) ==
    Discard(_execute_git_meta_cmd(<<<<"open">>>> \o submodules.items,
                                  Cwd(self.working_dir), env))

\* Repo.open(submodules)
open(self, submodules, env) ==
    IF submodules.type # "list"
    THEN Done(Raise("AssertionError"), <<>>)
    ELSE Discard(_execute_git_meta_cmd(<<<<"open">>>> \o submodules.items,
                                       Cwd(self.working_dir), env))

\* Repo.checkout(params)
checkout(self, params, env) ==
    IF params.type # "list"
    THEN Done(Raise("AssertionError"), <<>>)
    ELSE Discard(_execute_git_meta_cmd(<<<<"checkout">>>> \o params.items,
                                       Cwd(self.working_dir), env))

\* is_open looking for the submodule's directory, not its .git entry.
is_open_dir(self, submodule, files) ==
    Done(Return(BoolVal(exists(files, join(self.working_dir, submodule)))),
         <<>>)

\* Repo.is_open(submodule)
is_open(self, submodule, files) ==
    Done(Return(BoolVal(exists(files,
             join(join(self.working_dir, submodule), <<".git">>)))), <<>>)

\* ------------------------------------------------------------------ state
VARIABLES
    fs,         \* the paths that exist
    repo,       \* the Repo object: Unresolved until __init__ succeeds
    root_out,   \* stdout of the root call that bound repo
    last        \* the call whose outcome the caller is looking at

vars == <<fs, repo, root_out, last>>

Call(op, arg, env, r) ==
    [op |-> op, arg |-> arg, env |-> env, result |-> r.result,
     procs |-> r.procs]

NoEnv == [runner |-> "stub",
          child |-> [kind |-> "oserror", returncode |-> 0, stdout |-> <<>>,
                     stderr |-> <<>>]]

Idle == Call("none", NoneVal, NoEnv, Done(Return(NoneVal), <<>>))

Init ==
    /\ fs \in Filesystems
    /\ repo = Unresolved
    /\ root_out = <<>>
    /\ last = Idle

\* Repo._execute_git_meta_cmd(args) called directly.
Execute ==
    /\ last = Idle
    /\ \E args \in ArgLists, env \in Envs :
           last' = Call("_execute_git_meta_cmd", ListVal(args), env,
                        _execute_git_meta_cmd(args, NoCwd, env))
    /\ UNCHANGED <<fs, repo, root_out>>

\* Repo.help()
Help ==
    /\ last = Idle
    /\ \E env \in Envs : last' = Call("help", NoneVal, env, help(NoCwd, env))
    /\ UNCHANGED <<fs, repo, root_out>>

\* Repo.version()
Version ==
    /\ last = Idle
    /\ \E env \in Envs :
           last' = Call("version", NoneVal, env, version(NoCwd, env))
    /\ UNCHANGED <<fs, repo, root_out>>

\* Repo.get_working_dir(clone_dir)
GetWorkingDir ==
    /\ last = Idle
    /\ \E clone_dir \in CloneDirs, env \in Envs :
           last' = Call("get_working_dir", StrVal(clone_dir), env,
                        get_working_dir(clone_dir, fs, env))
    /\ UNCHANGED <<fs, repo, root_out>>

\* Repo(clone_dir): a new object is constructed.
Construct ==
    /\ last = Idle
    /\ repo.state = "unresolved"
    /\ \E clone_dir \in CloneDirs, env \in Envs :
           LET r == __init__(clone_dir, fs, env) IN
           /\ repo' = r.self
           /\ root_out' = IF r.self.state = "bound" THEN env.child.stdout
                          ELSE root_out
           /\ last' = Call("Repo", StrVal(clone_dir), env, r)
    /\ UNCHANGED fs

\* repo.open(submodules)
Open ==
    /\ last = Idle
    /\ repo.state = "bound"
    /\ \E submodules \in {ListVal(xs) : xs \in ArgLists} \cup NonLists,
          env \in Envs :
           last' = Call("open", submodules, env, open(repo, submodules, env))
    /\ UNCHANGED <<fs, repo, root_out>>

\* repo.checkout(params)
Checkout ==
    /\ last = Idle
    /\ repo.state = "bound"
    /\ \E params \in {ListVal(xs) : xs \in ArgLists} \cup NonLists,
          env \in Envs :
           last' = Call("checkout", params, env, checkout(repo, params, env))
    /\ UNCHANGED <<fs, repo, root_out>>

\* repo.is_open(submodule)
IsOpen ==
    /\ last = Idle
    /\ repo.state = "bound"
    /\ \E submodule \in Submodules :
           last' = Call("is_open", StrVal(submodule), NoEnv,
                        is_open(repo, submodule, fs))
    /\ UNCHANGED <<fs, repo, root_out>>

\* The call is over: the caller has its value or exception and goes on.
CallEnds ==
    /\ last # Idle
    /\ last' = Idle
    /\ UNCHANGED <<fs, repo, root_out>>

Next ==
    \/ Execute
    \/ Help
    \/ Version
    \/ GetWorkingDir
    \/ Construct
    \/ Open
    \/ Checkout
    \/ IsOpen
    \/ CallEnds

Spec == Init /\ [][Next]_vars

\* ----------------------------------------------------------------- claims
\* The directory a get_working_dir or Repo(...) call was given.
CloneDir == TextOf(last.arg)
\* What the git-meta binary does for the call the caller is looking at.
Tool == last.env.child
\* The args a call hands to _execute_git_meta_cmd.
ArgsSent ==
    IF last.op \in {"open", "checkout"} THEN <<<<last.op>>>> \o last.arg.items
    ELSE IF last.op = "_execute_git_meta_cmd" THEN last.arg.items
    ELSE IF last.op \in {"get_working_dir", "Repo"} THEN <<<<"root">>>>
    ELSE <<<<last.op>>>>
StrVals(xs) == [i \in 1..Len(xs) |-> StrVal(xs[i])]

\* C1: for a clone_dir that does not exist, get_working_dir(clone_dir) and
\* Repo(clone_dir) raise NoSuchPathException, and Popen has not been called
\* when they do.
C1_NoSuchPathBeforeSpawn ==
    (last.op \in {"get_working_dir", "Repo"} /\ ~exists(fs, CloneDir))
        => /\ last.result = Raise("NoSuchPathException")
           /\ last.procs = <<>>

C1_Witness ==
    /\ last.op = "Repo"
    /\ last.env.runner = "subprocess"
    /\ ~exists(fs, CloneDir)
    /\ last.result.exc = "NoSuchPathException"

\* C2: for an existing clone_dir in which `git-meta root` exits non-zero,
\* get_working_dir returns None and Repo(clone_dir) raises
\* MissingGitMetaCloneException and leaves no bound Repo.
C2_RootFailureIsMissingClone ==
    (/\ last.op \in {"get_working_dir", "Repo"}
     /\ exists(fs, CloneDir)
     /\ Tool.kind = "exit"
     /\ Tool.returncode # 0)
        => /\ last.op = "get_working_dir" => last.result = Return(NoneVal)
           /\ last.op = "Repo" =>
                  /\ last.result = Raise("MissingGitMetaCloneException")
                  /\ repo.state = "unresolved"

\* C3: for an existing clone_dir in which `git-meta root` exits 0 with
\* stdout s, Repo(clone_dir) succeeds with working_dir = s stripped and
\* git_dir = working_dir joined with ".git".
C3_ConstructBindsStrippedRoot ==
    (/\ last.op = "Repo"
     /\ exists(fs, CloneDir)
     /\ Tool.kind = "exit"
     /\ Tool.returncode = 0)
        => /\ last.result.kind = "return"
           /\ repo.state = "bound"
           /\ repo.working_dir = strip(Tool.stdout)
           /\ repo.git_dir = join(repo.working_dir, <<".git">>)

\* C4: _execute_git_meta_cmd(args, cwd) returns the stripped stdout when
\* the child exits 0 and raises GitMetaCommandException carrying the exit
\* code, the caller's args and the untrimmed stdout and stderr otherwise.
C4_ExitCodeMapping ==
    (last.op = "_execute_git_meta_cmd" /\ Tool.kind = "exit")
        => /\ Tool.returncode = 0 =>
                  last.result = Return(StrVal(strip(Tool.stdout)))
           /\ Tool.returncode # 0 =>
                  last.result = GitMetaCommandException(Tool.returncode,
                                    ArgsSent, Tool.stdout, Tool.stderr)

\* C5: every argument vector handed to Popen starts with the executable's
\* name, the str 'git-meta', followed by the args in order.
C5_ArgvStartsWithBinary ==
    \A i \in 1..Len(last.procs) :
        last.procs[i].call.argv = <<_get_git_meta_bin>> \o StrVals(ArgsSent)

\* C6: on a bound Repo, open(xs) and checkout(ps) with a list run the
\* external tool exactly once, with args ["open"] + xs (["checkout"] + ps)
\* and cwd = working_dir, and return nothing on success.
C6_OpenCheckoutInvokeOnce ==
    (/\ last.op \in {"open", "checkout"}
     /\ last.arg.type = "list"
     /\ Tool.kind = "exit")
        => /\ Len(last.procs) = 1
           /\ last.procs[1].launched
           /\ Tail(last.procs[1].call.argv) = StrVals(ArgsSent)
           /\ last.procs[1].call.cwd = Cwd(repo.working_dir)
           /\ last.result.kind = "return" => last.result.value = NoneVal

\* C7: open(x) and checkout(x) with an x that is not a list fail the
\* isinstance assertion, and Popen has not been called when they do.
C7_NonListRejected ==
    (last.op \in {"open", "checkout"} /\ last.arg.type # "list")
        => /\ last.result = Raise("AssertionError")
           /\ last.procs = <<>>

C7_Witness ==
    /\ last.op = "checkout"
    /\ last.arg = StrVal(<<"a">>)
    /\ last.result.exc = "AssertionError"

\* The path working_dir/submodule/.git written out.
MarkerPath(wd, submodule) == wd \o <<"/">> \o submodule \o <<"/", ".git">>
IsRelative(p) == p = <<>> \/ Head(p) # "/"

\* C8 as stated: for every submodule path, is_open(submodule) is true iff
\* working_dir/submodule/.git exists, and Popen is not called.
C8_IsOpenAnyPath ==
    last.op = "is_open"
        => /\ last.result =
                  Return(BoolVal(exists(fs, MarkerPath(repo.working_dir,
                                                       TextOf(last.arg)))))
           /\ last.procs = <<>>

C8_RelativeInv ==
    (last.op = "is_open" /\ IsRelative(TextOf(last.arg)))
        => /\ last.result =
                  Return(BoolVal(exists(fs, MarkerPath(repo.working_dir,
                                                       TextOf(last.arg)))))
           /\ last.procs = <<>>

\* C8 (amended): for every relative submodule path, is_open(submodule) is
\* true iff working_dir/submodule/.git exists; the call does not call Popen
\* and changes neither the Repo nor the filesystem.
C8_IsOpenRelativePath ==
    /\ []C8_RelativeInv
    /\ [][last'.op = "is_open" => UNCHANGED <<repo, fs>>]_vars

C8_Witness ==
    /\ last.op = "is_open"
    /\ last.arg = StrVal(<<"a">>)
    /\ last.result = Return(BoolVal(TRUE))

\* C9: a non-zero exit during help, version, open or checkout reaches the
\* caller as GitMetaCommandException with that call's exit code, args,
\* stdout and stderr; a launch failure reaches the caller as an exception
\* that is neither GitMetaCommandException nor MissingGitMetaCloneException,
\* and never as a returned value.
C9_FailurePropagation ==
    /\ (/\ last.op \in {"help", "version", "open", "checkout"}
        /\ last.op \in {"open", "checkout"} => last.arg.type = "list"
        /\ Tool.kind = "exit"
        /\ Tool.returncode # 0)
           => last.result = GitMetaCommandException(Tool.returncode,
                                ArgsSent, Tool.stdout, Tool.stderr)
    /\ \A i \in 1..Len(last.procs) :
           last.procs[i].error # ""
               => /\ last.result.kind = "raise"
                  /\ last.result.exc \notin {"GitMetaCommandException",
                                             "MissingGitMetaCloneException"}

C10_BoundInv ==
    /\ repo.state = "bound"
           => /\ repo.working_dir # <<>>
              /\ repo.working_dir = strip(root_out)
              /\ repo.git_dir = join(repo.working_dir, <<".git">>)
    /\ (/\ last.op = "Repo"
        /\ Tool.kind = "exit"
        /\ strip(Tool.stdout) = <<>>)
           => /\ repo.state = "unresolved"
              /\ last.result.kind = "raise"

\* C10: once a Repo is bound, working_dir is non-empty, is the stripped
\* stdout of the root call made at construction, and git_dir is working_dir
\* joined with ".git"; no later call changes the object; a root call that
\* prints only whitespace never binds a Repo.
C10_BoundRepoImmutable ==
    /\ []C10_BoundInv
    /\ [][repo.state = "bound" => UNCHANGED <<repo, root_out>>]_vars

C10_Witness ==
    /\ repo.state = "bound"
    /\ last.op = "checkout"
    /\ last.result.exc = "GitMetaCommandException"
====
